---------------------------- MODULE Spec2Model ----------------------------
(***************************************************************************)
(* Model of the invoice OCR batch pipeline of src/main.py:                 *)
(*   read_images, crop_upper_right, parse_ocr_results, process_image and   *)
(*   main.                                                                 *)
(*                                                                         *)
(* Python strings are sequences of one-character strings, so that          *)
(* searching, splitting, slicing and stripping are computed, not assumed.  *)
(* A Python dict is the set of its <<key, value>> pairs; {} is the empty   *)
(* set.                                                                    *)
(*                                                                         *)
(* Three specifications share the variables:                               *)
(*   SpecCrop   crop_upper_right applied to every image shape in bounds    *)
(*   SpecParse  parse_ocr_results applied to every list of lines in bounds *)
(*   Spec       a run of main (FairSpec: the same run, which keeps going)  *)
(***************************************************************************)
EXTENDS Integers, Sequences, FiniteSets, TLC

VARIABLES
    shape,          \* img.shape[:2] of the image handed to crop_upper_right
    crop,           \* what crop_upper_right computed, NoCrop before the call
    text_lines,     \* the argument of parse_ocr_results
    parsed,         \* what parse_ocr_results returned, NotParsed before the call
    path_exists,    \* const.INVOICE_PATH.exists()
    dir_entries,    \* what const.INVOICE_PATH.iterdir() yields, in order
    pc,             \* where main is
    image_paths,    \* main's image_paths
    idx,            \* position of main's for loop in image_paths (1-based)
    extracted_data, \* main's accumulator
    output,         \* the spreadsheet at const.OUTPUT_PATH, NoFile while unwritten
    error,          \* the exception main ended with, NoError otherwise
    calls           \* history: one record per call of process_image, in order

cropVars  == <<shape, crop>>
parseVars == <<text_lines, parsed>>
mainVars  == <<path_exists, dir_entries, pc, image_paths, idx, extracted_data,
               output, error, calls>>
vars      == <<shape, crop, text_lines, parsed, path_exists, dir_entries, pc,
               image_paths, idx, extracted_data, output, error, calls>>

---------------------------------------------------------------------------
(* Bounds of the model.                                                    *)

\* Image heights and widths run over 1..MaxDim.
MaxDim == 100
\* A last line is the concatenation of at most MaxSegs segments.
MaxSegs == 3
\* parse_ocr_results is given at most MaxLines lines.
MaxLines == 4
\* The input directory holds at most MaxFiles entries.
MaxFiles == 3

---------------------------------------------------------------------------
(* Python sequence and string operations.                                  *)

Max(a, b) == IF a >= b THEN a ELSE b
Min(a, b) == IF a <= b THEN a ELSE b

\* A slice bound i of a sequence of length n, as Python normalises it:
\* a negative bound counts from the end, and the result is clamped to 0..n.
SliceBound(i, n) == IF i < 0 THEN Max(0, i + n) ELSE Min(i, n)

\* s[a:b] with 0-based Python bounds.
PySlice(s, a, b) == SubSeq(s, SliceBound(a, Len(s)) + 1, SliceBound(b, Len(s)))

\* The 0-based positions s[a:b] reads.
PySliceIndices(s, a, b) == SliceBound(a, Len(s)) .. (SliceBound(b, Len(s)) - 1)

\* The 0-based position s[i] reads (i may be negative); outside 0..Len(s)-1
\* Python raises IndexError.
PyIndexPos(s, i) == IF i < 0 THEN i + Len(s) ELSE i
PyIndexOk(s, i) == PyIndexPos(s, i) \in 0 .. (Len(s) - 1)
PyIndex(s, i) == s[PyIndexPos(s, i) + 1]

\* sub occurs in s at 1-based position i.
OccursAt(s, sub, i) ==
    /\ i >= 1
    /\ i + Len(sub) - 1 <= Len(s)
    /\ SubSeq(s, i, i + Len(sub) - 1) = sub

\* sub in s
Contains(s, sub) == \E i \in 1 .. (Len(s) + 1) : OccursAt(s, sub, i)

\* The 1-based position of the first occurrence of sub in s (0: none).
Find(s, sub) ==
    IF Contains(s, sub)
    THEN CHOOSE i \in 1 .. (Len(s) + 1) :
             /\ OccursAt(s, sub, i)
             /\ \A j \in 1 .. (i - 1) : ~OccursAt(s, sub, j)
    ELSE 0

\* s.split(sep), sep non-empty: the pieces between the occurrences of sep,
\* found left to right without overlap.
RECURSIVE Split(_, _)
Split(s, sep) ==
    IF ~Contains(s, sep)
    THEN <<s>>
    ELSE LET i == Find(s, sep)
         IN  <<SubSeq(s, 1, i - 1)>> \o Split(SubSeq(s, i + Len(sep), Len(s)), sep)

Whitespace == {" ", "\t", "\n", "\r"}

\* s.strip()
RECURSIVE LStrip(_)
LStrip(s) == IF s # <<>> /\ Head(s) \in Whitespace THEN LStrip(Tail(s)) ELSE s

RECURSIVE RStrip(_)
RStrip(s) ==
    IF s # <<>> /\ s[Len(s)] \in Whitespace
    THEN RStrip(SubSeq(s, 1, Len(s) - 1))
    ELSE s

Strip(s) == RStrip(LStrip(s))

\* "".join(parts)
RECURSIVE Join(_)
Join(parts) == IF parts = <<>> THEN <<>> ELSE Head(parts) \o Join(Tail(parts))

---------------------------------------------------------------------------
(* Python dicts as sets of <<key, value>> pairs.                           *)

EmptyDict == {}
Keys(d) == {kv[1] : kv \in d}
Get(d, k) == (CHOOSE kv \in d : kv[1] = k)[2]
\* d[k] = v
DictSet(d, k, v) == {kv \in d : kv[1] # k} \cup {<<k, v>>}

---------------------------------------------------------------------------
(* crop_upper_right                                                        *)

\* int(n * 0.50): 0.5 is a binary64 number and n * 0.5 is exact.
IntMulHalf(n) == n \div 2

\* int(n * 0.10): the binary64 nearest to 0.1 is 0.1 + 0.4 * 2^-56, above
\* 0.1, so the rounded product is never below n/10 when that is an integer,
\* and otherwise the fraction of n/10 is at most 0.9.
IntMulTenth(n) == n \div 10

\* int(n * 0.70): the binary64 nearest to 0.7 is 0.7 - 0.4 * 2^-53, below
\* 0.7. When 7n/10 is an integer N with 2^k <= N < 2^(k+1), the exact
\* product N - 0.4 * n * 2^-53 rounds to N only if 0.4 * n * 2^-53 is at most
\* half the spacing 2^(k-52) of the binary64 numbers below N; otherwise it
\* rounds to a number below N and int() gives N - 1 (n = 90 gives 62).
RECURSIVE Log2Floor(_)
Log2Floor(n) == IF n <= 1 THEN 0 ELSE 1 + Log2Floor(n \div 2)

IntMulSevenTenths(n) ==
    LET N == (7 * n) \div 10
    IN  IF (7 * n) % 10 # 0 THEN N
        ELSE IF 2 * n <= 5 * (2 ^ Log2Floor(N)) THEN N
        ELSE N - 1

NoCrop == [called |-> FALSE]

\* y1 taken from the crop height percentage instead of the offset percentage.
CropUpperRightSwappedPercent(height, width) ==
    LET crop_height == IntMulSevenTenths(height)
        crop_width  == IntMulHalf(width)
        y1 == Max(0, IntMulSevenTenths(height))
        x1 == Max(0, width - crop_width)
        x2 == Min(width, width)
        y2 == Min(height, height - crop_height)
    IN  [called |-> TRUE, crop_height |-> crop_height, crop_width |-> crop_width,
         x1 |-> x1, x2 |-> x2, y1 |-> y1, y2 |-> y2,
         rows |-> Max(0, Min(y2, height) - Min(y1, height)),
         cols |-> Max(0, Min(x2, width) - Min(x1, width))]

\* crop_upper_right(img) for an image of the given height and width: the
\* crop dimensions and coordinates it computes, and the number of rows and
\* columns of the array img[y1:y2, x1:x2] it returns.
CropUpperRight(height, width) ==
    LET crop_height == IntMulSevenTenths(height)
        crop_width  == IntMulHalf(width)
        y1 == Max(0, IntMulTenth(height))
        x1 == Max(0, width - crop_width)
        x2 == Min(width, width)
        y2 == Min(height, height - crop_height)
    IN  [called |-> TRUE, crop_height |-> crop_height, crop_width |-> crop_width,
         x1 |-> x1, x2 |-> x2, y1 |-> y1, y2 |-> y2,
         rows |-> Max(0, Min(y2, height) - Min(y1, height)),
         cols |-> Max(0, Min(x2, width) - Min(x1, width))]

---------------------------------------------------------------------------
(* parse_ocr_results                                                       *)

NoError == "none"

\* The literal searched for in the last line.
TaxIdLiteral == <<"T", "a", "x", " ", "I", "D", ":">>

\* The fixed offset of the fallback, last_line[6:], taken when the line is
\* longer than it.
FallbackOffset == 6

\* What a call produced: the exception it raised (NoError: none) and the
\* value it returned.
Returned(v) == [called |-> TRUE, raises |-> NoError, value |-> v]
Raised(e)   == [called |-> TRUE, raises |-> e, value |-> EmptyDict]
NotParsed   == [called |-> FALSE, raises |-> NoError, value |-> EmptyDict]

\* The tax_id computed from the last line; split(...)[1] is the piece
\* between the first occurrence of the literal and the next one (or the end).
TaxIdOf(last_line) ==
    IF Contains(last_line, TaxIdLiteral)
    THEN Strip(PyIndex(Split(last_line, TaxIdLiteral), 1))
    ELSE IF Len(last_line) > FallbackOffset
         THEN PySlice(last_line, FallbackOffset, Len(last_line))
         ELSE <<>>

\* The subscripts parse_ocr_results evaluates on a list of this length are
\* all in range (otherwise Python raises IndexError).
SubscriptsOk(lines) ==
    /\ Len(lines) > 1 => PyIndexOk(lines, 1)
    /\ Len(lines) > 0 => PyIndexOk(lines, -1)
    /\ (Len(lines) > 0 /\ PyIndexOk(lines, -1)
          /\ Contains(PyIndex(lines, -1), TaxIdLiteral))
        => PyIndexOk(Split(PyIndex(lines, -1), TaxIdLiteral), 1)

ParsedFields(client_name, client_address, tax_id) ==
    { <<"client_name", client_name>>,
      <<"client_address", client_address>>,
      <<"tax_id", tax_id>> }

\* The name is taken whenever the list is non-empty (guard off by one).
ParseOcrResultsNameGuardOffByOne(lines) ==
    IF lines = <<>> THEN Returned(EmptyDict)
    ELSE Returned(ParsedFields(
             IF Len(lines) > 0 THEN PyIndex(lines, 0) ELSE <<>>,
             IF Len(lines) > 2 THEN Join(PySlice(lines, 2, -1)) ELSE <<>>,
             IF Len(lines) > 0 THEN TaxIdOf(PyIndex(lines, -1)) ELSE <<>>))

\* The address slice runs to the end of the list and takes the last line in.
ParseOcrResultsAddressToEnd(lines) ==
    IF lines = <<>> THEN Returned(EmptyDict)
    ELSE Returned(ParsedFields(
             IF Len(lines) > 1 THEN PyIndex(lines, 1) ELSE <<>>,
             IF Len(lines) > 2 THEN Join(PySlice(lines, 2, Len(lines))) ELSE <<>>,
             IF Len(lines) > 0 THEN TaxIdOf(PyIndex(lines, -1)) ELSE <<>>))

\* Only the fields that were found are returned.
ParseOcrResultsDropEmpty(lines) ==
    IF lines = <<>> THEN Returned(EmptyDict)
    ELSE Returned({kv \in ParsedFields(
             IF Len(lines) > 1 THEN PyIndex(lines, 1) ELSE <<>>,
             IF Len(lines) > 2 THEN Join(PySlice(lines, 2, -1)) ELSE <<>>,
             IF Len(lines) > 0 THEN TaxIdOf(PyIndex(lines, -1)) ELSE <<>>)
               : kv[2] # <<>>})

\* parse_ocr_results(text_lines)
ParseOcrResults(lines) ==
    IF lines = <<>> THEN Returned(EmptyDict)
    ELSE IF ~SubscriptsOk(lines) THEN Raised("IndexError")
    ELSE Returned(ParsedFields(
             IF Len(lines) > 1 THEN PyIndex(lines, 1) ELSE <<>>,
             IF Len(lines) > 2 THEN Join(PySlice(lines, 2, -1)) ELSE <<>>,
             IF Len(lines) > 0 THEN TaxIdOf(PyIndex(lines, -1)) ELSE <<>>))

\* The 0-based positions of the lines each field is computed from.
ParseSources(lines) ==
    [client_name    |-> IF Len(lines) > 1 THEN {PyIndexPos(lines, 1)} ELSE {},
     client_address |-> IF Len(lines) > 2 THEN PySliceIndices(lines, 2, -1) ELSE {},
     tax_id         |-> IF Len(lines) > 0 THEN {PyIndexPos(lines, -1)} ELSE {}]

---------------------------------------------------------------------------
(* Inputs of the pure functions.                                           *)

Shapes == [height : 1 .. MaxDim, width : 1 .. MaxDim]

\* Pieces a last line is made of: white space, digits, the literal, and a
\* six-character label that is not the literal.
Segments ==
    { <<" ">>, <<"7">>, <<"4", "2">>, TaxIdLiteral,
      <<"T", "a", "x", "I", "D", ":">> }

RECURSIVE SegConcats(_)
SegConcats(k) ==
    IF k = 0 THEN {<<>>}
    ELSE LET shorter == SegConcats(k - 1)
         IN  shorter \cup {s \o g : s \in shorter, g \in Segments}

LastLines == SegConcats(MaxSegs)

\* The lines before the last one.
OtherLines == { <<>>, <<"A", "c", "m", "e">>, <<"9", " ", "E", "l", "m">> }

RECURSIVE SeqsUpTo(_, _)
SeqsUpTo(S, k) ==
    IF k = 0 THEN {<<>>}
    ELSE LET shorter == SeqsUpTo(S, k - 1)
         IN  shorter \cup {Append(s, x) : s \in shorter, x \in S}

TextLinesInputs ==
    {<<>>} \cup {Append(p, l) : p \in SeqsUpTo(OtherLines, MaxLines - 1),
                                l \in LastLines}

---------------------------------------------------------------------------
(* read_images, process_image and the steps of main                        *)

\* const.INVOICE_PATH and the entries it may hold: f1, f2, ...
InvoicePath == <<"i", "n", "v", "o", "i", "c", "e", "s">>
Digits == <<"1", "2", "3", "4", "5", "6", "7", "8", "9">>
EntryNames == {<<"f", Digits[i]>> : i \in 1 .. MaxFiles}

\* path.iterdir(): one path per entry, each entry once, in any order.
IsInjective(s) == \A i, j \in 1 .. Len(s) : s[i] = s[j] => i = j
DirListings == {s \in SeqsUpTo(EntryNames, MaxFiles) : IsInjective(s)}
IterDir(path, entries) ==
    [i \in 1 .. Len(entries) |-> [parent |-> path, name |-> entries[i]]]

\* image_path.name
PathName(p) == p.name

\* The existence check is missing: whatever the directory lists is yielded.
ReadImagesNoCheck(exists, entries) ==
    [raises |-> NoError, yielded |-> IterDir(InvoicePath, entries)]

\* list(read_images(path)): the exception raised, or the paths yielded.
ReadImages(exists, entries) ==
    IF ~exists
    THEN [raises |-> "FileNotFoundError", yielded |-> <<>>]
    ELSE [raises |-> NoError, yielded |-> IterDir(InvoicePath, entries)]

\* cv2.imread returns None for a file it cannot read.
ImreadResults == {"None", "image"}

\* Lists of recognised lines the OCR model may return in a run of main.
MainTextLines ==
    { <<>>,
      <<<<"I", "n", "v">>>>,
      << <<"I", "n", "v">>, <<"A", "c", "m", "e">> >>,
      << <<"I", "n", "v">>, <<"A", "c", "m", "e">>,
         <<"T", "a", "x", " ", "I", "D", ":", " ", "4", "2">> >>,
      << <<"I", "n", "v">>, <<"B", "o", "b">>, <<"9", " ", "E", "l", "m">>,
         <<"T", "a", "x", "I", "D", ":", "7">> >> }

\* What ocr.predict does: it raises; it returns a result whose first element
\* cannot be searched for "rec_texts" (the test of line 121 raises); it
\* returns nothing usable (empty result, empty first element, or no
\* "rec_texts" key); it returns recognised lines.
OcrResults ==
    { [kind |-> "predict_raises", rec_texts |-> <<>>],
      [kind |-> "malformed", rec_texts |-> <<>>],
      [kind |-> "no_text", rec_texts |-> <<>>] }
    \cup {[kind |-> "texts", rec_texts |-> l] : l \in MainTextLines}

\* process_image(image_path, ocr), given what imread and predict do. The
\* cropped image only feeds the OCR model, whose answer is an input here.
ProcessImage(img, ocr_result) ==
    IF img = "None" THEN Returned(EmptyDict)
    ELSE IF ocr_result.kind = "predict_raises" THEN Raised("RuntimeError")
    ELSE IF ocr_result.kind = "malformed" THEN Raised("TypeError")
    ELSE IF ocr_result.kind = "texts" THEN ParseOcrResults(ocr_result.rec_texts)
    ELSE Returned(EmptyDict)

\* The row is appended without testing that data is non-empty.
LoopBodyNoDataTest(acc, image_path, res) ==
    IF res.raises # NoError THEN acc
    ELSE Append(acc, DictSet(res.value, "source_file", PathName(image_path)))

\* The body of main's for loop, after process_image returned or raised: the
\* new value of extracted_data.
LoopBody(acc, image_path, res) ==
    IF res.raises # NoError THEN acc
    ELSE IF res.value # EmptyDict
         THEN Append(acc, DictSet(res.value, "source_file", PathName(image_path)))
         ELSE acc

\* The try/except encloses the loop: the first exception ends it.
AfterFileStopOnError(res, i, n) ==
    IF res.raises # NoError \/ i = n THEN "after_loop" ELSE "loop"

\* Where main is after the file at position i of n: the except clause is
\* inside the loop, so the loop goes on to the next file.
AfterFile(res, i, n) == IF i = n THEN "after_loop" ELSE "loop"

\* pd.DataFrame(records): the columns are the keys of the records; a record
\* without a key has NaN in that column.
NaN == <<"NaN">>
Cols == <<"source_file", "client_name", "client_address", "tax_id">>
DataFrameColumns(records) == UNION {Keys(records[i]) : i \in 1 .. Len(records)}
IsCol(records, c) == c \in DataFrameColumns(records)
ExistingCols(records) == SelectSeq(Cols, LAMBDA c : IsCol(records, c))
Cell(record, c) == IF c \in Keys(record) THEN Get(record, c) ELSE NaN

NoFile == [written |-> FALSE, columns |-> <<>>, rows |-> <<>>]

\* dataframe[existing_cols].to_excel(OUTPUT_PATH, index=False)
Sheet(records) ==
    LET existing_cols == ExistingCols(records)
    IN  [written |-> TRUE,
         columns |-> existing_cols,
         rows    |-> [i \in 1 .. Len(records) |->
                        {<<existing_cols[j], Cell(records[i], existing_cols[j])>>
                            : j \in 1 .. Len(existing_cols)}]]

\* The test for an empty accumulator is missing.
SaveResultsNoEmptyTest(acc, io_ok) ==
    IF ~io_ok THEN [pc |-> "raised", output |-> NoFile, error |-> "OSError"]
    ELSE [pc |-> "done", output |-> Sheet(acc), error |-> NoError]

\* main after the loop: nothing is written for an empty accumulator;
\* otherwise the sheet is written, unless mkdir or to_excel raises.
SaveResults(acc, io_ok) ==
    IF acc = <<>> THEN [pc |-> "done", output |-> NoFile, error |-> NoError]
    ELSE IF ~io_ok THEN [pc |-> "raised", output |-> NoFile, error |-> "OSError"]
    ELSE [pc |-> "done", output |-> Sheet(acc), error |-> NoError]

---------------------------------------------------------------------------
(* Specifications                                                          *)

CropIdle == shape = [height |-> 1, width |-> 1] /\ crop = NoCrop
ParseIdle == text_lines = <<>> /\ parsed = NotParsed
MainIdle ==
    /\ path_exists = FALSE
    /\ dir_entries = <<>>
    /\ pc = "start"
    /\ image_paths = <<>>
    /\ idx = 1
    /\ extracted_data = <<>>
    /\ output = NoFile
    /\ error = NoError
    /\ calls = <<>>

\* SpecCrop: one call of crop_upper_right on any image shape.
InitCrop == shape \in Shapes /\ crop = NoCrop /\ ParseIdle /\ MainIdle

Crop ==
    /\ ~crop.called
    /\ crop' = CropUpperRight(shape.height, shape.width)
    /\ UNCHANGED <<shape, parseVars, mainVars>>

SpecCrop == InitCrop /\ [][Crop]_vars

\* SpecParse: one call of parse_ocr_results on any list of lines.
InitParse ==
    text_lines \in TextLinesInputs /\ parsed = NotParsed /\ CropIdle /\ MainIdle

Parse ==
    /\ ~parsed.called
    /\ parsed' = ParseOcrResults(text_lines)
    /\ UNCHANGED <<text_lines, cropVars, mainVars>>

SpecParse == InitParse /\ [][Parse]_vars

\* Spec: a run of main over a directory that may not exist.
Init ==
    /\ path_exists \in BOOLEAN
    /\ dir_entries \in (IF path_exists THEN DirListings ELSE {<<>>})
    /\ pc = "start"
    /\ image_paths = <<>>
    /\ idx = 1
    /\ extracted_data = <<>>
    /\ output = NoFile
    /\ error = NoError
    /\ calls = <<>>
    /\ CropIdle
    /\ ParseIdle

\* Lines 144-149: enumerate the directory; leave when it is missing or empty.
EnumerateFiles ==
    /\ pc = "start"
    /\ LET r == ReadImages(path_exists, dir_entries)
       IN  /\ image_paths' = r.yielded
           /\ error' = r.raises
           /\ pc' = IF r.raises # NoError THEN "raised"
                    ELSE IF r.yielded = <<>> THEN "done"
                    ELSE "loop"
    /\ UNCHANGED <<path_exists, dir_entries, idx, extracted_data, output, calls,
                   cropVars, parseVars>>

\* Lines 150-157: one iteration of the loop.
ProcessFile ==
    /\ pc = "loop"
    /\ idx <= Len(image_paths)
    /\ \E img \in ImreadResults, ocr_result \in OcrResults :
          LET image_path == image_paths[idx]
              res == ProcessImage(img, ocr_result)
          IN  /\ extracted_data' = LoopBody(extracted_data, image_path, res)
              /\ calls' = Append(calls, [file   |-> image_path,
                                         img    |-> img,
                                         raises |-> res.raises,
                                         data   |-> res.value])
              /\ pc' = AfterFile(res, idx, Len(image_paths))
    /\ idx' = idx + 1
    /\ UNCHANGED <<path_exists, dir_entries, image_paths, output, error,
                   cropVars, parseVars>>

\* Lines 159-178: write the spreadsheet, or leave without one.
WriteOutput ==
    /\ pc = "after_loop"
    /\ \E io_ok \in BOOLEAN :
          LET r == SaveResults(extracted_data, io_ok)
          IN  /\ pc' = r.pc
              /\ output' = r.output
              /\ error' = r.error
    /\ UNCHANGED <<path_exists, dir_entries, image_paths, idx, extracted_data,
                   calls, cropVars, parseVars>>

Next == EnumerateFiles \/ ProcessFile \/ WriteOutput

Spec == Init /\ [][Next]_vars

\* main is sequential code that runs to its end: no step is postponed for
\* ever.
FairSpec == Init /\ [][Next]_vars /\ WF_vars(Next)

---------------------------------------------------------------------------
(* Properties of a run of main                                             *)

\* The calls of process_image that returned data: the files that were not
\* skipped.
IsSuccess(c) == c.raises = NoError /\ c.data # EmptyDict
Successes == SelectSeq(calls, IsSuccess)

\* How many times process_image was called on a path.
Attempts(path) == Cardinality({k \in 1 .. Len(calls) : calls[k].file = path})
AllAttemptedOnce == \A i \in 1 .. Len(image_paths) : Attempts(image_paths[i]) = 1

\* C1: when the spreadsheet is written it has one row per file that was
\* processed without being skipped, in order, each row carrying that file's
\* name as source_file, and no file name on two rows.
C1_RowPerProcessedFile ==
    output.written =>
        /\ Len(output.rows) = Len(Successes)
        /\ \A i \in 1 .. Len(output.rows) :
              /\ "source_file" \in Keys(output.rows[i])
              /\ Get(output.rows[i], "source_file") = PathName(Successes[i].file)
        /\ \A i, j \in 1 .. Len(output.rows) :
              Get(output.rows[i], "source_file") = Get(output.rows[j], "source_file")
                  => i = j

\* A written sheet of two rows from a run that also skipped a file.
C1_Witness ==
    /\ output.written
    /\ Len(output.rows) = 2
    /\ Len(calls) > Len(output.rows)

\* C2: a file whose processing raises leaves the accumulator as it was and
\* does not end the loop: no file is attempted twice, and once the loop has
\* started it reaches its end with every enumerated file attempted exactly
\* once.
C2_FailuresAreSkipped ==
    /\ [][(Len(calls') = Len(calls) + 1 /\ calls'[Len(calls')].raises # NoError)
            => extracted_data' = extracted_data]_vars
    /\ [](\A i \in 1 .. Len(image_paths) : Attempts(image_paths[i]) <= 1)
    /\ [](pc = "loop" => <>(pc = "after_loop" /\ AllAttemptedOnce))

\* The loop ended after a first file that raised and a later file that
\* yielded a row.
C2_Witness ==
    /\ pc = "after_loop"
    /\ Len(calls) >= 2
    /\ calls[1].raises # NoError
    /\ AllAttemptedOnce
    /\ extracted_data # <<>>

\* C3: the spreadsheet is written only when at least one row was
\* accumulated; when no file yielded data (an empty directory, or only
\* failing and empty files) main goes to its end, and ends, with no file
\* written.
C3_NoDataNoOutput ==
    /\ [](output.written => (extracted_data # <<>> /\ Successes # <<>>))
    /\ [][(pc = "after_loop" /\ Successes = <<>>)
            => (pc' = "done" /\ output' = NoFile)]_vars
    /\ [][(pc = "start" /\ path_exists /\ dir_entries = <<>>)
            => (pc' = "done" /\ output' = NoFile)]_vars
    /\ []((pc \in {"start", "loop", "after_loop"} /\ path_exists)
            => <>(pc \in {"done", "raised"}
                    /\ (Successes = <<>> => (pc = "done" /\ ~output.written))))

\* A finished run over two files, none of which yielded data, and no file
\* written.
C3_Witness ==
    /\ pc = "done"
    /\ Len(calls) = 2
    /\ Successes = <<>>
    /\ ~output.written

\* C7: a written spreadsheet has exactly the columns source_file,
\* client_name, client_address, tax_id, in that order, and every row has a
\* value in each of them.
C7_AllFourColumns ==
    output.written =>
        /\ output.columns = Cols
        /\ \A i \in 1 .. Len(output.rows) : \A j \in 1 .. Len(Cols) :
              /\ Cols[j] \in Keys(output.rows[i])
              /\ Get(output.rows[i], Cols[j]) # NaN

\* A written sheet whose rows all have an empty address and an empty tax_id.
C7_Witness ==
    /\ output.written
    /\ Len(output.rows) >= 1
    /\ \A i \in 1 .. Len(output.rows) :
          /\ Get(output.rows[i], "client_address") = <<>>
          /\ Get(output.rows[i], "tax_id") = <<>>

\* C8: over a path that does not exist, read_images raises
\* FileNotFoundError before yielding anything, and main ends with that
\* exception: no file is processed and nothing is written.
C8_MissingPathRaises ==
    (~path_exists /\ pc # "start") =>
        /\ pc = "raised"
        /\ error = "FileNotFoundError"
        /\ image_paths = <<>>
        /\ calls = <<>>
        /\ extracted_data = <<>>
        /\ ~output.written

\* main has ended on the missing path.
C8_Witness == ~path_exists /\ pc = "raised"

---------------------------------------------------------------------------
(* Properties of crop_upper_right                                          *)

\* C4: the crop coordinates are within the image:
\* 0 <= x1 <= x2 <= width and 0 <= y1 <= y2 <= height.
C4_CropWithinBounds ==
    crop.called =>
        /\ 0 <= crop.x1 /\ crop.x1 <= crop.x2 /\ crop.x2 <= shape.width
        /\ 0 <= crop.y1 /\ crop.y1 <= crop.y2 /\ crop.y2 <= shape.height

\* A crop of an image whose 70% height is rounded down by the binary64
\* product.
C4_Witness == crop.called /\ shape.height = 90 /\ shape.width = 7

\* C10: the returned region is crop_width = floor(50% of width) columns wide
\* and crop_height = floor(70% of height) rows high, at the right edge,
\* starting at the 10% vertical offset.
C10_RegionHasCropDimensions ==
    crop.called =>
        /\ crop.cols = crop.crop_width
        /\ crop.crop_width = (50 * shape.width) \div 100
        /\ crop.rows = crop.crop_height
        /\ crop.crop_height = (70 * shape.height) \div 100
        /\ crop.x2 = shape.width
        /\ crop.y1 = (10 * shape.height) \div 100

---------------------------------------------------------------------------
(* Properties of parse_ocr_results                                         *)

FieldKeys == {"client_name", "client_address", "tax_id"}

\* C5 as stated: on fewer than three lines, the empty list included, no
\* error is raised and the three fields are returned, each field without a
\* source line being the empty string.
C5_ShortListsAllFields ==
    (parsed.called /\ Len(text_lines) < 3) =>
        /\ parsed.raises = NoError
        /\ Keys(parsed.value) = FieldKeys
        /\ Len(text_lines) < 2 => Get(parsed.value, "client_name") = <<>>
        /\ Get(parsed.value, "client_address") = <<>>
        /\ Len(text_lines) < 1 => Get(parsed.value, "tax_id") = <<>>

\* C5, amended: on one or two lines no error is raised and the three fields
\* are returned, client_address empty and client_name empty when there is
\* one line; on the empty list no error is raised and the empty dict, with
\* no field, is returned.
C5_ShortLists ==
    (parsed.called /\ Len(text_lines) < 3) =>
        /\ parsed.raises = NoError
        /\ text_lines = <<>> => parsed.value = EmptyDict
        /\ text_lines # <<>> =>
              /\ Keys(parsed.value) = FieldKeys
              /\ Len(text_lines) < 2 => Get(parsed.value, "client_name") = <<>>
              /\ Get(parsed.value, "client_address") = <<>>

\* A single line, parsed, from which a tax_id was taken.
C5_Witness ==
    /\ parsed.called
    /\ Len(text_lines) = 1
    /\ Get(parsed.value, "tax_id") # <<>>

\* C6: tax_id is the text after the literal "Tax ID:" in the last line,
\* trimmed, when the last line contains the literal, and the last line
\* without its first six characters otherwise.
C6_TaxIdFromLastLine ==
    (parsed.called /\ text_lines # <<>>) =>
        LET last == text_lines[Len(text_lines)]
        IN  /\ parsed.raises = NoError
            /\ Get(parsed.value, "tax_id") =
                  IF Contains(last, TaxIdLiteral)
                  THEN Strip(SubSeq(last, Find(last, TaxIdLiteral) + Len(TaxIdLiteral),
                                    Len(last)))
                  ELSE SubSeq(last, 7, Len(last))

\* client_name is the line at index 1 and client_address the lines from
\* index 2 to the second-to-last, joined in order.
NameAndAddressAsIndexed ==
    /\ parsed.raises = NoError
    /\ Get(parsed.value, "client_name") =
          IF Len(text_lines) >= 2 THEN text_lines[2] ELSE <<>>
    /\ Get(parsed.value, "client_address") =
          Join(SubSeq(text_lines, 3, Len(text_lines) - 1))
    /\ Len(text_lines) < 4 => Get(parsed.value, "client_address") = <<>>

\* No line is the source of two fields, and the last line is the source of
\* tax_id alone.
SourcesDisjoint ==
    LET src == ParseSources(text_lines)
    IN  /\ src.client_name \cap src.client_address = {}
        /\ src.client_name \cap src.tax_id = {}
        /\ src.client_address \cap src.tax_id = {}
        /\ src.tax_id = {Len(text_lines) - 1}

====
